---- MODULE Spec2Model ----
(***************************************************************************)
(* Model of the Haier device gateway client                                *)
(* (custom_components/haier/core/client.py).                               *)
(*                                                                         *)
(*  Spec       the listen_devices sessions: gateway discovery, connect,    *)
(*             subscribe, heartbeat task, read loop, except/finally,       *)
(*             reconnect loop, for two overlapping sessions.               *)
(*  SpecCodec  _parse_message and get_device_snapshot_data as functions    *)
(*             of their input.                                             *)
(*  SpecRest   the signed REST calls and the success-envelope check.       *)
(*  SpecCache  get_digital_model_from_cache over the persisted store.      *)
(***************************************************************************)
EXTENDS Integers, Sequences, FiniteSets, TLC

\* ---------------------------------------------------------------- bounds

\* Connection attempts (ws_connect calls) followed per session.
MaxAttempts == 2
\* Longest attribute array drawn as input.
MaxAttrs == 2

\* ------------------------------------------------------- python values

\* A dict is a function whose domain is its set of keys; this is the empty one.
EmptyDict == [k \in {} |-> ""]

\* The outcome of an expression that may raise.
Ok(v) == [ok |-> TRUE, val |-> v]
Raise(type, msg) == [ok |-> FALSE, exc |-> [type |-> type, msg |-> msg]]

\* Texts and byte strings are modelled by the encoding they are written in and
\* the value they encode; a decoder strips exactly its own layer and raises on
\* anything else.
Garbage == [enc |-> "garbage"]
Json(v) == [enc |-> "json", body |-> v]
Base64(v) == [enc |-> "base64", body |-> v]
GzipStream(v) == [enc |-> "gzip", body |-> v]
RawDeflate(v) == [enc |-> "deflate", body |-> v]

json_loads(x) ==
    IF x.enc = "json" THEN Ok(x.body) ELSE Raise("JSONDecodeError", <<>>)

b64decode(x) ==
    IF x.enc = "base64" THEN Ok(x.body) ELSE Raise("binascii.Error", <<>>)

\* zlib.decompress(data, 16 + zlib.MAX_WBITS): accepts a gzip container only.
zlib_decompress(x) ==
    IF x.enc = "gzip" THEN Ok(x.body) ELSE Raise("zlib.error", <<>>)

\* d[key] on a dict
GetItem(d, key) ==
    IF key \in DOMAIN d THEN Ok(d[key]) ELSE Raise("KeyError", <<key>>)

\* ---------------------------------------------------------- MessageCodec

Names == {"targetTemp", "onOffStatus"}
Values == {"40", "42"}
Devices == {"D1", "D2"}

\* Attribute objects of a digital model: 'value' is optional; an object
\* without 'name' is malformed.
AttributeObjects ==
    [name : Names, value : Values] \cup [name : Names, desc : {"d"}]
        \cup [value : Values, desc : {"d"}]

RECURSIVE SeqsUpTo(_, _)
SeqsUpTo(S, n) ==
    IF n = 0 THEN {<<>>}
    ELSE LET shorter == SeqsUpTo(S, n - 1)
         IN shorter \cup {Append(q, x) : q \in {r \in shorter : Len(r) = n - 1}, x \in S}

AttributeArrays == SeqsUpTo(AttributeObjects, MaxAttrs)

\* for attribute in attributes: if 'value' not in attribute: continue;
\* values[attribute['name']] = attribute['value']
\* The loop without its `continue`: a valueless attribute is kept as "null".
CollectWithPlaceholder(attributes, i, acc) ==
    LET RECURSIVE go(_, _)
        go(j, m) ==
            IF j > Len(attributes) THEN Ok(m)
            ELSE IF "name" \notin DOMAIN attributes[j] THEN Raise("KeyError", <<"name">>)
            ELSE IF "value" \notin DOMAIN attributes[j]
                 THEN go(j + 1, (attributes[j].name :> "null") @@ m)
            ELSE go(j + 1, (attributes[j].name :> attributes[j].value) @@ m)
    IN go(i, acc)

RECURSIVE CollectValues(_, _, _)
CollectValues(attributes, i, acc) ==
    IF i > Len(attributes) THEN Ok(acc)
    ELSE IF "value" \notin DOMAIN attributes[i]
         THEN CollectValues(attributes, i + 1, acc)
    ELSE IF "name" \notin DOMAIN attributes[i] THEN Raise("KeyError", <<"name">>)
    ELSE CollectValues(attributes, i + 1,
                       (attributes[i].name :> attributes[i].value) @@ acc)

\* What _parse_message does with one text frame.
NoSnapshot == [kind |-> "none"]
Raised(r) == [kind |-> "raise", exc |-> r.exc]
\* A snapshot published under the first device's id.
SnapshotOfFirstDevice(deviceId, attributes) ==
    [kind |-> "event", deviceId |-> "D1", attributes |-> attributes]

Snapshot(deviceId, attributes) ==
    [kind |-> "event", deviceId |-> deviceId, attributes |-> attributes]

ParsePayload(deviceId, payload) ==
    IF "attributes" \notin DOMAIN payload
    THEN Raised(Raise("KeyError", <<"attributes">>))
    ELSE LET c == CollectValues(payload.attributes, 1, EmptyDict)
         IN IF c.ok THEN Snapshot(deviceId, c.val) ELSE Raised(c)

ParseArgs(data) ==
    IF "dev" \notin DOMAIN data THEN Raised(Raise("KeyError", <<"dev">>))
    ELSE IF "args" \notin DOMAIN data THEN Raised(Raise("KeyError", <<"args">>))
    ELSE LET b == b64decode(data.args) IN
         IF ~b.ok THEN Raised(b)
         ELSE LET z == zlib_decompress(b.val) IN
              IF ~z.ok THEN Raised(z)
              ELSE LET j == json_loads(z.val) IN
                   IF ~j.ok THEN Raised(j) ELSE ParsePayload(data.dev, j.val)

ParseData(content) ==
    IF "data" \notin DOMAIN content THEN Raised(Raise("KeyError", <<"data">>))
    ELSE LET b == b64decode(content.data) IN
         IF ~b.ok THEN Raised(b)
         ELSE LET j == json_loads(b.val) IN
              IF ~j.ok THEN Raised(j) ELSE ParseArgs(j.val)

\* _parse_message without its two early returns.
ParseIgnoringTopic(msg) ==
    LET m == json_loads(msg) IN
    IF ~m.ok THEN Raised(m)
    ELSE IF "content" \notin DOMAIN m.val
         THEN Raised(Raise("KeyError", <<"content">>))
    ELSE ParseData(m.val.content)

ParseMessage(msg) ==
    LET m == json_loads(msg) IN
    IF ~m.ok THEN Raised(m)
    ELSE IF "topic" \notin DOMAIN m.val THEN Raised(Raise("KeyError", <<"topic">>))
    ELSE IF m.val.topic # "GenMsgDown" THEN NoSnapshot
    ELSE IF "content" \notin DOMAIN m.val
         THEN Raised(Raise("KeyError", <<"content">>))
    ELSE IF "businType" \notin DOMAIN m.val.content
         THEN Raised(Raise("KeyError", <<"businType">>))
    ELSE IF m.val.content.businType # "DigitalModel" THEN NoSnapshot
    ELSE ParseData(m.val.content)

\* The frames the gateway may deliver, layer by layer, well formed or broken
\* at each layer.
Payloads(arrays) ==
    [alarms : {<<>>}] \cup [alarms : {<<>>}, attributes : arrays]

ArgsTexts(arrays) ==
    {Garbage, Base64(Garbage), Base64(GzipStream(Garbage))}
        \cup {Base64(RawDeflate(Json(p))) : p \in Payloads({<<>>})}
        \cup {Base64(GzipStream(Json(p))) : p \in Payloads(arrays)}

DataObjects(arrays) ==
    [dev : Devices] \cup [args : ArgsTexts({<<>>})]
        \cup [dev : Devices, args : ArgsTexts(arrays)]

DataTexts(arrays) ==
    {Garbage, Base64(Garbage)} \cup {Base64(Json(d)) : d \in DataObjects(arrays)}

Contents(arrays) ==
    [sn : {"sn"}] \cup [sn : {"sn"}, businType : {"DigitalModel", "Other"}]
        \cup [sn : {"sn"}, businType : {"DigitalModel", "Other"},
              data : DataTexts(arrays)]

Envelopes(arrays) ==
    [agClientId : {"c"}]
        \cup [agClientId : {"c"}, topic : {"GenMsgDown", "HeartBeatAck"}]
        \cup [agClientId : {"c"}, topic : {"GenMsgDown", "HeartBeatAck"},
              content : Contents(arrays)]

TextFrames(arrays) == {Garbage} \cup {Json(e) : e \in Envelopes(arrays)}

\* The digital-model push frame for a device and an attribute array.
PushFrame(deviceId, attributes) ==
    Json([agClientId |-> "c", topic |-> "GenMsgDown",
          content |-> [sn |-> "sn", businType |-> "DigitalModel",
                       data |-> Base64(Json([dev |-> deviceId,
                           args |-> Base64(GzipStream(Json(
                               [alarms |-> <<>>, attributes |-> attributes])))]))]])

\* ------------------------------------------------------------ RestClient

\* An HTTP exchange either fails in transport or yields a JSON object.
TransportFailure == [status |-> "error"]
HttpOk(content) == [status |-> "ok", content |-> content]

ErrorPrefix == "API returned error: "

\* An envelope check that lets every retCode through.
AcceptAnyRetCode(resp) == Ok("")

AssertResponseSuccessful(resp) ==
    IF "retCode" \in DOMAIN resp /\ resp.retCode # "00000"
    THEN IF "retInfo" \in DOMAIN resp
         THEN Raise("HaierClientException", <<ErrorPrefix, resp.retInfo>>)
         ELSE Raise("KeyError", <<"retInfo">>)
    ELSE Ok("")

RefreshToken(reply) ==
    IF reply.status # "ok" THEN Raise("ClientError", <<>>)
    ELSE LET a == AssertResponseSuccessful(reply.content) IN
         IF ~a.ok THEN a
         ELSE LET d == GetItem(reply.content, "data") IN
              IF ~d.ok THEN d ELSE GetItem(d.val, "tokenInfo")

GetDevices(reply) ==
    IF reply.status # "ok" THEN Raise("ClientError", <<>>)
    ELSE LET a == AssertResponseSuccessful(reply.content) IN
         IF ~a.ok THEN a ELSE GetItem(reply.content, "deviceinfos")

\* get_digital_model that takes a missing device id for a failure.
GetDigitalModelOrFail(reply, deviceId) ==
    IF reply.status # "ok" THEN Raise("ClientError", <<>>)
    ELSE LET a == AssertResponseSuccessful(reply.content) IN
         IF ~a.ok THEN a
         ELSE IF "detailInfo" \notin DOMAIN reply.content
              THEN Raise("KeyError", <<"detailInfo">>)
         ELSE IF deviceId \notin DOMAIN reply.content.detailInfo
              THEN Raise("HaierClientException", <<ErrorPrefix, deviceId>>)
         ELSE LET j == json_loads(reply.content.detailInfo[deviceId]) IN
              IF ~j.ok THEN j ELSE GetItem(j.val, "attributes")

GetDigitalModel(reply, deviceId) ==
    IF reply.status # "ok" THEN Raise("ClientError", <<>>)
    ELSE LET a == AssertResponseSuccessful(reply.content) IN
         IF ~a.ok THEN a
         ELSE IF "detailInfo" \notin DOMAIN reply.content
              THEN Raise("KeyError", <<"detailInfo">>)
         ELSE IF deviceId \notin DOMAIN reply.content.detailInfo THEN Ok(<<>>)
         ELSE LET j == json_loads(reply.content.detailInfo[deviceId]) IN
              IF ~j.ok THEN j ELSE GetItem(j.val, "attributes")

\* str.replace('http://', 'wss://') on a URL given as scheme and host
ReplaceScheme(url) ==
    IF url.scheme = "http" THEN [url EXCEPT !.scheme = "wss"] ELSE url

GetWssGatewayUrl(reply) ==
    IF reply.status # "ok" THEN Raise("ClientError", <<>>)
    ELSE LET a == AssertResponseSuccessful(reply.content) IN
         IF ~a.ok THEN a
         ELSE LET u == GetItem(reply.content, "agAddr") IN
              IF ~u.ok THEN u ELSE Ok(ReplaceScheme(u.val))

RECURSIVE SnapshotValues(_, _, _)
SnapshotValues(attributes, i, values) ==
    IF i > Len(attributes) THEN Ok(values)
    ELSE IF "value" \notin DOMAIN attributes[i]
         THEN SnapshotValues(attributes, i + 1, values)
    ELSE IF "name" \notin DOMAIN attributes[i] THEN Raise("KeyError", <<"name">>)
    ELSE SnapshotValues(attributes, i + 1,
                        (attributes[i].name :> attributes[i].value) @@ values)

GetDeviceSnapshotData(reply, deviceId) ==
    LET a == GetDigitalModel(reply, deviceId) IN
    IF ~a.ok THEN a ELSE SnapshotValues(a.val, 1, EmptyDict)

\* The response envelopes a server may send, and each API's payload.
Envelope ==
    {EmptyDict, [retCode |-> "00000"], [retCode |-> "00000", retInfo |-> "success"],
     [retCode |-> "99999", retInfo |-> "boom"], [retCode |-> "A0001", retInfo |-> ""],
     [retCode |-> "99999"], [retInfo |-> "boom"]}

TokenPayloads ==
    {EmptyDict, [data |-> [tokenInfo |->
        [accountToken |-> "t2", refreshToken |-> "r2", expiresIn |-> 864000]]]}

DevicePayloads ==
    {EmptyDict, [deviceinfos |-> <<>>], [deviceinfos |-> <<[deviceId |-> "D1"]>>]}

ModelTexts(arrays) ==
    {Garbage, Json([alarms |-> <<>>])} \cup {Json([attributes |-> a]) : a \in arrays}

ModelPayloads(arrays) ==
    {EmptyDict, [detailInfo |-> EmptyDict]}
        \cup {[detailInfo |-> (d :> t)] : d \in Devices, t \in ModelTexts(arrays)}

GatewayPayloads ==
    {EmptyDict} \cup {[agAddr |-> [scheme |-> sch, host |-> "gw"]] :
                          sch \in {"http", "wss", "https"}}

Replies(payloads) ==
    {TransportFailure} \cup {HttpOk(e @@ p) : e \in Envelope, p \in payloads}

\* ---------------------------------------------------------- AttributeCache

\* What the Store of a device holds on disk.
Missing == [t |-> "missing"]
Unreadable == [t |-> "unreadable"]
StrRecord(v) == [t |-> "str", str |-> v]
ListRecord(items) == [t |-> "list", items |-> items]
NumRecord(n) == [t |-> "num", num |-> n]
DictRecord(d) == [t |-> "dict", dict |-> d]

DeviceMeta(deviceId) ==
    [name |-> deviceId, type |-> "heater", product_code |-> "pc",
     product_name |-> "pn", wifi_type |-> "wt"]

\* A hit only when the cached attribute list is not empty.
TruthyByAttributes(cache) ==
    cache.t = "dict" /\ "attributes" \in DOMAIN cache.dict /\ cache.dict.attributes # <<>>

\* bool(cache)
Truthy(cache) ==
    CASE cache.t = "missing" -> FALSE
      [] cache.t = "str" -> cache.str # ""
      [] cache.t = "list" -> cache.items # <<>>
      [] cache.t = "num" -> cache.num # 0
      [] cache.t = "dict" -> DOMAIN cache.dict # {}

\* cache['attributes']
CachedAttributes(cache) ==
    IF cache.t = "dict" THEN GetItem(cache.dict, "attributes")
    ELSE Raise("TypeError", <<>>)

\* A load that never takes its record for a string.
NeverStr(cache) == FALSE

\* isinstance(cache, str)
IsStr(cache) == cache.t = "str"

\* The outcome of get_digital_model_from_cache: what it returns or raises,
\* what the store holds afterwards, and whether it went to the network.
GetDigitalModelFromCache(record, deviceId, reply) ==
    LET invalid == record.t = "unreadable" \/ IsStr(record)
        cache == IF invalid THEN Missing ELSE record
        afterLoad == IF invalid THEN Missing ELSE record
    IN IF Truthy(cache)
       THEN [out |-> CachedAttributes(cache), store |-> afterLoad,
             removed |-> invalid, fetched |-> FALSE, saved |-> FALSE]
       ELSE LET attributes == GetDigitalModel(reply, deviceId) IN
            IF ~attributes.ok
            THEN [out |-> attributes, store |-> afterLoad,
                  removed |-> invalid, fetched |-> TRUE, saved |-> FALSE]
            ELSE [out |-> attributes,
                  store |-> DictRecord([device |-> DeviceMeta(deviceId),
                                        attributes |-> attributes.val]),
                  removed |-> invalid, fetched |-> TRUE, saved |-> TRUE]

CacheRecords(arrays) ==
    {Missing, Unreadable, StrRecord(""), StrRecord("corrupt"),
     ListRecord(<<>>), ListRecord(<<"x">>), NumRecord(0), NumRecord(7),
     DictRecord(EmptyDict), DictRecord([device |-> DeviceMeta("D1")])}
        \cup {DictRecord([device |-> DeviceMeta(d), attributes |-> a]) :
                  d \in Devices, a \in arrays}

\* ------------------------------------------------------------------ state

VARIABLES
    pc,            \* where each listen_devices coroutine stands
    signal,        \* each session's `signal` (threading.Event): set or not
    current,       \* hass.data['current_listen_devices_process_id']
    attempts,      \* ws_connect calls made by each session so far
    cancelHandle,  \* local cancel_control_listen: 0 unbound, k the listener of attempt k
    listeners,     \* control listeners registered on the bus, <<session, attempt>>
    hb,            \* the heartbeat task of each attempt, with its heartbeat_signal
    last,          \* the step taken last: who, what was read, fired and written
    call,          \* SpecCodec, SpecRest, SpecCache: the call under study
    result,        \* its outcome
    store          \* SpecCache: the persisted record of each device

gatewayVars == <<pc, signal, current, attempts, cancelHandle, listeners, hb, last>>
callVars == <<call, result, store>>
vars == <<pc, signal, current, attempts, cancelHandle, listeners, hb, last,
          call, result, store>>

Sessions == {"s1", "s2"}
NoPid == "none"
Attempts == 1..MaxAttempts

Step(op, s, rx, fired, wrote) ==
    [op |-> op, by |-> s, rx |-> rx, fired |-> fired, wrote |-> wrote]

\* fire_event(hass, EVENT_GATEWAY_STATUS_CHANGED, {'status': ...})
StatusEvent(s, status) ==
    [type |-> "gateway_status_changed", by |-> s, status |-> status]
\* fire_event(hass, EVENT_DEVICE_DATA_CHANGED, {'deviceId': ..., 'attributes': ...})
DataEvent(s, deviceId, attributes) ==
    [type |-> "device_data_changed", by |-> s, deviceId |-> deviceId,
     attributes |-> attributes]
LogSkip(s) == [type |-> "log", by |-> s, msg |-> "process_id not match, skip..."]

NoCall == [op |-> "none"]
Pending == [kind |-> "pending"]

GatewayInit ==
    /\ pc = [s \in Sessions |-> "idle"]
    /\ signal = [s \in Sessions |-> FALSE]
    /\ current = NoPid
    /\ attempts = [s \in Sessions |-> 0]
    /\ cancelHandle = [s \in Sessions |-> 0]
    /\ listeners = {}
    /\ hb = [s \in Sessions |-> [k \in Attempts |-> "none"]]
    /\ last = Step("Init", NoPid, <<>>, <<>>, <<>>)

CallInit ==
    /\ call = NoCall
    /\ result = Pending
    /\ store = [d \in Devices |-> Missing]

Init == GatewayInit /\ CallInit

\* ------------------------------------------------- GatewayConnection.listen

\* The frames a session is given to read: a push for each device, a frame of
\* another topic, one of another businType and one that does not decode.
SessionFrames ==
    {PushFrame("D1", <<[name |-> "targetTemp", value |-> "42"],
                       [name |-> "onOffStatus", desc |-> "d"]>>),
     PushFrame("D2", <<[name |-> "targetTemp", value |-> "40"]>>),
     Json([agClientId |-> "c", topic |-> "HeartBeatAck"]),
     Json([agClientId |-> "c", topic |-> "GenMsgDown",
           content |-> [sn |-> "sn", businType |-> "Other"]]),
     Garbage}

\* A websocket message: a TEXT frame or one of another type.
Messages == [type : {"TEXT"}, data : SessionFrames] \cup [type : {"BINARY"}]

GatewayReplies ==
    {TransportFailure,
     HttpOk([retCode |-> "00000", agAddr |-> [scheme |-> "http", host |-> "gw"]]),
     HttpOk([retCode |-> "99999", retInfo |-> "boom"])}

\* A loop that never looks at the signal.
IgnoreSignal(s) == TRUE

\* while not signal.is_set():
LoopCondition(s) == ~signal[s]

\* A finally clause that does not compare process ids.
EveryoneAuthoritative(s) == TRUE

\* if process_id == self._hass.data['current_listen_devices_process_id']:
StillAuthoritative(s) == current = s

\* The top of the reconnect loop: leave when the signal is set, else start the
\* next attempt at ws_connect. "capped" stands for the attempts past MaxAttempts.
LoopTop(s) ==
    IF LoopCondition(s)
    THEN IF attempts[s] < MaxAttempts
         THEN /\ pc' = [pc EXCEPT ![s] = "connect"]
              /\ attempts' = [attempts EXCEPT ![s] = @ + 1]
         ELSE /\ pc' = [pc EXCEPT ![s] = "capped"]
              /\ UNCHANGED attempts
    ELSE /\ pc' = [pc EXCEPT ![s] = "done"]
         /\ UNCHANGED attempts

\* The finally clause, then the loop condition again. cancel_control_listen is
\* a local of listen_devices that only the subscribe step assigns: unbound, the
\* call raises UnboundLocalError out of listen_devices.
Finally(s, op) ==
    IF cancelHandle[s] = 0
    THEN /\ pc' = [pc EXCEPT ![s] = "crashed"]
         /\ last' = Step(op, s, <<>>, <<>>, <<>>)
         /\ UNCHANGED <<attempts, listeners, hb>>
    ELSE /\ listeners' = listeners \ {<<s, cancelHandle[s]>>}
         /\ hb' = [hb EXCEPT ![s][attempts[s]] = IF @ = "alive" THEN "stopping" ELSE @]
         /\ last' = Step(op, s, <<>>,
                         IF StillAuthoritative(s) THEN <<StatusEvent(s, FALSE)>>
                                                  ELSE <<LogSkip(s)>>,
                         <<>>)
         /\ LoopTop(s)

\* listen_devices is called: it runs to the await in _get_wss_gateway_url.
Listen(s) ==
    /\ pc[s] = "idle"
    /\ pc' = [pc EXCEPT ![s] = "discover"]
    /\ last' = Step("Listen", s, <<>>, <<>>, <<>>)
    /\ UNCHANGED <<signal, current, attempts, cancelHandle, listeners, hb>>
    /\ UNCHANGED callVars

\* _get_wss_gateway_url returns or raises; on return the process id is
\* recorded and the loop is entered.
Discover(s) ==
    /\ pc[s] = "discover"
    /\ \E reply \in GatewayReplies :
          LET server == GetWssGatewayUrl(reply) IN
          IF server.ok
          THEN /\ current' = s
               /\ LoopTop(s)
          ELSE /\ pc' = [pc EXCEPT ![s] = "crashed"]
               /\ UNCHANGED <<current, attempts>>
    /\ last' = Step("Discover", s, <<>>, <<>>, <<>>)
    /\ UNCHANGED <<signal, cancelHandle, listeners, hb>>
    /\ UNCHANGED callVars

\* ws_connect succeeds: the heartbeat task is created and the subscribe frame
\* is handed to ws.send_str.
ConnectOk(s) ==
    /\ pc[s] = "connect"
    /\ pc' = [pc EXCEPT ![s] = "subscribe"]
    /\ hb' = [hb EXCEPT ![s][attempts[s]] = "alive"]
    /\ last' = Step("ConnectOk", s, <<>>, <<>>, <<>>)
    /\ UNCHANGED <<signal, current, attempts, cancelHandle, listeners>>
    /\ UNCHANGED callVars

\* ws_connect raises: the except clause logs and sleeps 30 s.
ConnectFail(s) ==
    /\ pc[s] = "connect"
    /\ pc' = [pc EXCEPT ![s] = "backoff"]
    /\ last' = Step("ConnectFail", s, <<>>, <<>>, <<>>)
    /\ UNCHANGED <<signal, current, attempts, cancelHandle, listeners, hb>>
    /\ UNCHANGED callVars

\* The subscribe frame is sent: the control listener is registered, status
\* True is fired and the read loop waits for a message.
SubscribeOk(s) ==
    /\ pc[s] = "subscribe"
    /\ pc' = [pc EXCEPT ![s] = "stream"]
    /\ listeners' = listeners \cup {<<s, attempts[s]>>}
    /\ cancelHandle' = [cancelHandle EXCEPT ![s] = attempts[s]]
    /\ last' = Step("SubscribeOk", s, <<>>, <<StatusEvent(s, TRUE)>>, <<"BoundDevs">>)
    /\ UNCHANGED <<signal, current, attempts, hb>>
    /\ UNCHANGED callVars

\* ws.send_str raises: the socket is closed on the way out of `async with`.
SubscribeFail(s) ==
    /\ pc[s] = "subscribe"
    /\ pc' = [pc EXCEPT ![s] = "closeRaised"]
    /\ last' = Step("SubscribeFail", s, <<>>, <<>>, <<>>)
    /\ UNCHANGED <<signal, current, attempts, cancelHandle, listeners, hb>>
    /\ UNCHANGED callVars

\* One message is read: a TEXT frame goes through _parse_message, another
\* type is logged; then the signal is looked at.
Receive(s) ==
    /\ pc[s] = "stream"
    /\ \E msg \in Messages :
          LET parsed == IF msg.type = "TEXT" THEN ParseMessage(msg.data) ELSE NoSnapshot
          IN /\ pc' = [pc EXCEPT ![s] =
                          IF parsed.kind = "raise" THEN "closeRaised"
                          ELSE IF signal[s] THEN "close" ELSE "stream"]
             /\ last' = Step("Receive", s, <<msg>>,
                             IF parsed.kind = "event"
                             THEN <<DataEvent(s, parsed.deviceId, parsed.attributes)>>
                             ELSE <<>>,
                             <<>>)
    /\ UNCHANGED <<signal, current, attempts, cancelHandle, listeners, hb>>
    /\ UNCHANGED callVars

\* The peer closes the socket: `async for` ends without an exception.
PeerClose(s) ==
    /\ pc[s] = "stream"
    /\ pc' = [pc EXCEPT ![s] = "close"]
    /\ last' = Step("PeerClose", s, <<>>, <<>>, <<>>)
    /\ UNCHANGED <<signal, current, attempts, cancelHandle, listeners, hb>>
    /\ UNCHANGED callVars

\* Reading raises (a transport error, a cancelled read).
ReceiveFail(s) ==
    /\ pc[s] = "stream"
    /\ pc' = [pc EXCEPT ![s] = "closeRaised"]
    /\ last' = Step("ReceiveFail", s, <<>>, <<>>, <<>>)
    /\ UNCHANGED <<signal, current, attempts, cancelHandle, listeners, hb>>
    /\ UNCHANGED callVars

\* `async with` is left without an exception: no except clause runs, the
\* finally clause does and the loop goes round.
Closed(s) ==
    /\ pc[s] = "close"
    /\ Finally(s, "Closed")
    /\ UNCHANGED <<signal, current, cancelHandle>>
    /\ UNCHANGED callVars

\* `async with` is left by an exception: the except clause sleeps 30 s.
ClosedRaised(s) ==
    /\ pc[s] = "closeRaised"
    /\ pc' = [pc EXCEPT ![s] = "backoff"]
    /\ last' = Step("ClosedRaised", s, <<>>, <<>>, <<>>)
    /\ UNCHANGED <<signal, current, attempts, cancelHandle, listeners, hb>>
    /\ UNCHANGED callVars

\* asyncio.sleep(30) returns: the finally clause runs and the loop goes round.
BackoffOver(s) ==
    /\ pc[s] = "backoff"
    /\ Finally(s, "BackoffOver")
    /\ UNCHANGED <<signal, current, cancelHandle>>
    /\ UNCHANGED callVars

\* The owner of the session sets its signal.
Cancel(s) ==
    /\ pc[s] \notin {"idle", "done", "crashed"}
    /\ ~signal[s]
    /\ signal' = [signal EXCEPT ![s] = TRUE]
    /\ last' = Step("Cancel", s, <<>>, <<>>, <<>>)
    /\ UNCHANGED <<pc, current, attempts, cancelHandle, listeners, hb>>
    /\ UNCHANGED callVars

\* _send_heartbeat wakes: it sends a HeartBeat frame and sleeps 60 s again,
\* or finds its event set and ends.
Heartbeat(s, k) ==
    /\ hb[s][k] \in {"alive", "stopping"}
    /\ IF hb[s][k] = "stopping"
       THEN /\ hb' = [hb EXCEPT ![s][k] = "stopped"]
            /\ last' = Step("Heartbeat", s, <<>>, <<>>, <<>>)
       ELSE /\ UNCHANGED hb
            /\ last' = Step("Heartbeat", s, <<>>, <<>>, <<"HeartBeat">>)
    /\ UNCHANGED <<pc, signal, current, attempts, cancelHandle, listeners>>
    /\ UNCHANGED callVars

\* A heartbeat task that ends when its write fails.
HeartbeatFailEnds(s, k) ==
    /\ hb[s][k] = "alive"
    /\ hb' = [hb EXCEPT ![s][k] = "stopped"]
    /\ last' = Step("HeartbeatFail", s, <<>>, <<>>, <<>>)
    /\ UNCHANGED <<pc, signal, current, attempts, cancelHandle, listeners>>
    /\ UNCHANGED callVars

\* _send_heartbeat wakes and ws.send_str raises: the except clause logs the
\* exception and the task sleeps 60 s again.
HeartbeatFail(s, k) ==
    /\ hb[s][k] = "alive"
    /\ last' = Step("HeartbeatFail", s, <<>>, <<>>, <<>>)
    /\ UNCHANGED <<pc, signal, current, attempts, cancelHandle, listeners, hb>>
    /\ UNCHANGED callVars

\* agClientId = self._token
AgClientId == "token"

\* random_str(32)
Serials == {"r1", "r2"}

\* The attributes an entity asks to set.
Commands == {[targetTemp |-> "42"], [onOffStatus |-> "true"]}

\* fire_event(self.hass, EVENT_DEVICE_CONTROL, {'deviceId': ..., 'attributes': ...})
ControlEvent(deviceId, attributes) ==
    [type |-> "device_control", deviceId |-> deviceId, attributes |-> attributes]

\* _send_command that draws a serial of its own for the item.
SendCommandItemSerial(agClientId, deviceId, attributes, sn, trace) ==
    Json([agClientId |-> agClientId, topic |-> "BatchCmdReq",
          content |-> [trace |-> trace, sn |-> sn,
                       data |-> <<[sn |-> trace, index |-> 0, delaySeconds |-> 0,
                                   subSn |-> <<trace, ":0">>, deviceId |-> deviceId,
                                   cmdArgs |-> attributes]>>]])

\* The frame _send_command hands to ws.send_str; sn and trace are the two
\* random_str(32) it draws.
SendCommand(agClientId, deviceId, attributes, sn, trace) ==
    Json([agClientId |-> agClientId, topic |-> "BatchCmdReq",
          content |-> [trace |-> trace, sn |-> sn,
                       data |-> <<[sn |-> sn, index |-> 0, delaySeconds |-> 0,
                                   subSn |-> <<sn, ":0">>, deviceId |-> deviceId,
                                   cmdArgs |-> attributes]>>]])

\* Every socket is taken for open.
AlwaysConnected(s) == TRUE

\* The socket of the listener of session s is open: the listener is the one
\* of the running attempt and the read loop is on.
Connected(s) == <<s, attempts[s]>> \in listeners /\ pc[s] = "stream"

\* An entity fires a device-control event: control_callback of session s, if
\* registered, runs _send_command on the socket of its attempt. On an open
\* socket the frame is written; on a closed one ws.send_str raises in the
\* callback's task; with no listener nothing runs.
Control(s) ==
    /\ \E deviceId \in Devices, attributes \in Commands, sn \in Serials, trace \in Serials :
          last' = Step("Control", s, <<ControlEvent(deviceId, attributes)>>, <<>>,
                       IF Connected(s)
                       THEN <<SendCommand(AgClientId, deviceId, attributes, sn, trace)>>
                       ELSE <<>>)
    /\ UNCHANGED <<pc, signal, current, attempts, cancelHandle, listeners, hb>>
    /\ UNCHANGED callVars

Next ==
    \E s \in Sessions :
          \/ Listen(s)
          \/ Discover(s)
          \/ ConnectOk(s)
          \/ ConnectFail(s)
          \/ SubscribeOk(s)
          \/ SubscribeFail(s)
          \/ Receive(s)
          \/ PeerClose(s)
          \/ ReceiveFail(s)
          \/ Closed(s)
          \/ ClosedRaised(s)
          \/ BackoffOver(s)
          \/ Cancel(s)
          \/ \E k \in Attempts : Heartbeat(s, k)

Spec == Init /\ [][Next]_vars

\* One listen_devices session, with the entities that fire control events.
Primary == "s1"

NextSession ==
    \E s \in {Primary} :
          \/ Listen(s)
          \/ Discover(s)
          \/ ConnectOk(s)
          \/ ConnectFail(s)
          \/ SubscribeOk(s)
          \/ SubscribeFail(s)
          \/ Receive(s)
          \/ PeerClose(s)
          \/ ReceiveFail(s)
          \/ Closed(s)
          \/ ClosedRaised(s)
          \/ BackoffOver(s)
          \/ Cancel(s)
          \/ Control(s)
          \/ \E k \in Attempts : Heartbeat(s, k)
          \/ \E k \in Attempts : HeartbeatFail(s, k)

SpecSession == Init /\ [][NextSession]_vars

\* What the session does by itself once it is called: its requests and socket
\* operations complete, its timers expire, its tasks are scheduled. What the
\* peer and the owner do (a frame, a closure, an error on the read, a cancel,
\* a control event) may never happen.
SessionFairness ==
    /\ WF_vars(Discover(Primary))
    /\ WF_vars(ConnectOk(Primary) \/ ConnectFail(Primary))
    /\ WF_vars(SubscribeOk(Primary) \/ SubscribeFail(Primary))
    /\ WF_vars(Closed(Primary))
    /\ WF_vars(ClosedRaised(Primary))
    /\ WF_vars(BackoffOver(Primary))
    /\ \A k \in Attempts : WF_vars(Heartbeat(Primary, k) \/ HeartbeatFail(Primary, k))

SpecSessionFair == Init /\ [][NextSession]_vars /\ SessionFairness

\* --------------------------------------------------- the calls on their own

Outcome(r) == IF r.ok THEN [kind |-> "return", val |-> r.val] ELSE Raised(r)

\* SpecCodec: _parse_message on every frame, get_device_snapshot_data on every
\* digital-model reply.
CodecCalls ==
    {[op |-> "parse", msg |-> f] : f \in TextFrames(AttributeArrays)}
        \cup {[op |-> "snapshot", deviceId |-> d, reply |-> r] :
                  d \in Devices, r \in Replies(ModelPayloads(AttributeArrays))}

InitCodec ==
    /\ GatewayInit
    /\ call \in CodecCalls
    /\ result = Pending
    /\ store = [d \in Devices |-> Missing]

DoParseMessage ==
    /\ call.op = "parse"
    /\ result = Pending
    /\ result' = ParseMessage(call.msg)
    /\ UNCHANGED <<call, store>>
    /\ UNCHANGED gatewayVars

DoGetDeviceSnapshotData ==
    /\ call.op = "snapshot"
    /\ result = Pending
    /\ result' = Outcome(GetDeviceSnapshotData(call.reply, call.deviceId))
    /\ UNCHANGED <<call, store>>
    /\ UNCHANGED gatewayVars

NextCodec == DoParseMessage \/ DoGetDeviceSnapshotData

SpecCodec == InitCodec /\ [][NextCodec]_vars

\* SpecRest: the four signed calls on every reply.
RestArrays == {<<>>, <<[name |-> "targetTemp", value |-> "40"]>>}

RestCalls ==
    {[op |-> "refreshToken", reply |-> r] : r \in Replies(TokenPayloads)}
        \cup {[op |-> "getDevices", reply |-> r] : r \in Replies(DevicePayloads)}
        \cup {[op |-> "getDigitalModel", deviceId |-> d, reply |-> r] :
                  d \in Devices, r \in Replies(ModelPayloads(RestArrays))}
        \cup {[op |-> "getGatewayUrl", reply |-> r] : r \in Replies(GatewayPayloads)}

InitRest ==
    /\ GatewayInit
    /\ call \in RestCalls
    /\ result = Pending
    /\ store = [d \in Devices |-> Missing]

DoRefreshToken ==
    /\ call.op = "refreshToken"
    /\ result = Pending
    /\ result' = Outcome(RefreshToken(call.reply))
    /\ UNCHANGED <<call, store>>
    /\ UNCHANGED gatewayVars

DoGetDevices ==
    /\ call.op = "getDevices"
    /\ result = Pending
    /\ result' = Outcome(GetDevices(call.reply))
    /\ UNCHANGED <<call, store>>
    /\ UNCHANGED gatewayVars

DoGetDigitalModel ==
    /\ call.op = "getDigitalModel"
    /\ result = Pending
    /\ result' = Outcome(GetDigitalModel(call.reply, call.deviceId))
    /\ UNCHANGED <<call, store>>
    /\ UNCHANGED gatewayVars

DoGetWssGatewayUrl ==
    /\ call.op = "getGatewayUrl"
    /\ result = Pending
    /\ result' = Outcome(GetWssGatewayUrl(call.reply))
    /\ UNCHANGED <<call, store>>
    /\ UNCHANGED gatewayVars

NextRest == DoRefreshToken \/ DoGetDevices \/ DoGetDigitalModel \/ DoGetWssGatewayUrl

SpecRest == InitRest /\ [][NextRest]_vars

\* SpecCache: get_digital_model_from_cache, called again and again on a store
\* that starts with any record for each device.
CacheArrays == {<<>>, <<[name |-> "targetTemp", value |-> "40"]>>}

CacheReplies ==
    {TransportFailure,
     HttpOk([retCode |-> "99999", retInfo |-> "boom"]),
     HttpOk([retCode |-> "00000", detailInfo |-> EmptyDict]),
     HttpOk([retCode |-> "00000", detailInfo |-> ("D1" :> Garbage)])}
        \cup {HttpOk([retCode |-> "00000",
                      detailInfo |-> (d :> Json([attributes |-> a]))]) :
                  d \in Devices, a \in CacheArrays}

InitCache ==
    /\ GatewayInit
    /\ call = NoCall
    /\ result = Pending
    /\ store \in [Devices -> CacheRecords(CacheArrays)]

GetAttributes(deviceId) ==
    \E reply \in CacheReplies :
        LET r == GetDigitalModelFromCache(store[deviceId], deviceId, reply) IN
        /\ call' = [op |-> "getAttributes", deviceId |-> deviceId, reply |-> reply,
                    before |-> store]
        /\ result' = [kind |-> "cache", out |-> r.out, removed |-> r.removed,
                      fetched |-> r.fetched, saved |-> r.saved]
        /\ store' = [store EXCEPT ![deviceId] = r.store]
        /\ UNCHANGED gatewayVars

NextCache == \E deviceId \in Devices : GetAttributes(deviceId)

SpecCache == InitCache /\ [][NextCache]_vars

\* ---------------------------------------------------------------------------
\* Request signing (_sign).  Texts are sequences of characters.

\* Longest text of a body or of a URL.
MaxText == 2

Whitespace == {" ", "\t", "\r", "\n"}

\* The characters that end the path of a URL.
PathEnd == {"?", "#"}

\* text.replace(ch, '') that removes nothing.
KeepText(text, ch) == text

\* text.replace(ch, '')
Replace(text, ch) == SelectSeq(text, LAMBDA c : c # ch)

\* urlparse(url).path, for the part of the URL that follows the authority:
\* what precedes the query and the fragment.
UrlPath(url) ==
    LET ends == {i \in 1..Len(url) : url[i] \in PathEnd} IN
    IF ends = {} THEN url
    ELSE SubSeq(url, 1, (CHOOSE i \in ends : \A j \in ends : i <= j) - 1)

\* hashlib.sha256(content).hexdigest(): the digest stands for its content,
\* equal digests for equal contents only.
Sha256(content) == [sha256 |-> content]

\* _sign that puts the key before the id.
SignKeyFirst(app_id, app_key, timestamp, body, url) ==
    Sha256(UrlPath(url)
           \o Replace(Replace(Replace(Replace(body, "\t"), "\r"), "\n"), " ")
           \o app_key \o app_id \o timestamp)

Sign(app_id, app_key, timestamp, body, url) ==
    Sha256(UrlPath(url)
           \o Replace(Replace(Replace(Replace(body, "\t"), "\r"), "\n"), " ")
           \o app_id \o app_key \o timestamp)

SignFields == {"app_id", "app_key", "timestamp", "body", "url"}

\* The characters each input is written with.
Alphabet(field) ==
    CASE field = "app_id" -> {"A", "B"}
      [] field = "app_key" -> {"K", "L"}
      [] field = "timestamp" -> {"1", "2"}
      [] field = "body" -> {"x", "y"} \cup Whitespace
      [] field = "url" -> {"/", "p", "?"}

SignInputs ==
    [app_id : {<<"A">>}, app_key : {<<"K">>}, timestamp : {<<"1">>},
     body : SeqsUpTo({"x", " ", "\n"}, MaxText),
     url : SeqsUpTo(Alphabet("url"), MaxText)]

SignOf(in) == Sign(in.app_id, in.app_key, in.timestamp, in.body, in.url)

\* The request a, and the request b that differs from it in the character c
\* at one position of one input.
SignCall(a, field, pos, c) ==
    [op |-> "sign", a |-> a, field |-> field, pos |-> pos,
     b |-> [a EXCEPT ![field][pos] = c]]

InitSign ==
    /\ GatewayInit
    /\ \E a \in SignInputs, field \in SignFields :
          \E pos \in 1..Len(a[field]) :
              \E c \in Alphabet(field) \ {a[field][pos]} :
                  call = SignCall(a, field, pos, c)
    /\ result = Pending
    /\ store = [d \in Devices |-> Missing]

DoSign ==
    /\ call.op = "sign"
    /\ result = Pending
    /\ result' = [kind |-> "signed", a |-> SignOf(call.a), b |-> SignOf(call.b)]
    /\ UNCHANGED <<call, store>>
    /\ UNCHANGED gatewayVars

NextSign == DoSign

SpecSign == InitSign /\ [][NextSign]_vars

\* ---------------------------------------------------------------------------
\* Entities (entity.py): the number entity of one attribute of one device.

EntityDevice == "D1"
EntityKey == "targetTemp"

\* _attr_native_value before the first update.
Unset == "unset"

\* The attribute mappings an event may carry: any of the names, each with a value.
AttributeDicts == UNION {[S -> Values] : S \in SUBSET Names}

\* HaierAbstractEntity.__init__
NewEntity ==
    [kind |-> "entity", deviceId |-> EntityDevice, data |-> EmptyDict,
     native |-> Unset, raised |-> FALSE]

\* HaierNumber._update_value: self._attributes_data[self._attribute.key]
UpdateValue(data) == GetItem(data, EntityKey)

\* data_callback: an event of another device is ignored; else the event's
\* attributes become the entity's data and the value is updated from them. A
\* KeyError of _update_value leaves the callback after the assignment.
DataCallback(entity, event) ==
    IF event.deviceId # entity.deviceId
    THEN [entity EXCEPT !.raised = FALSE]
    ELSE LET value == UpdateValue(event.attributes) IN
         [entity EXCEPT !.data = event.attributes,
                        !.native = IF value.ok THEN value.val ELSE @,
                        !.raised = ~value.ok]

\* The value of each name in the most recent event that carried it.
LatestByName(latest, event) ==
    IF event.deviceId # EntityDevice THEN latest
    ELSE [n \in DOMAIN latest \cup DOMAIN event.attributes |->
             IF n \in DOMAIN event.attributes THEN event.attributes[n] ELSE latest[n]]

InitEntity ==
    /\ GatewayInit
    /\ call = [op |-> "added", event |-> DataEvent(Primary, EntityDevice, EmptyDict),
               latest |-> EmptyDict]
    /\ result = NewEntity
    /\ store = [d \in Devices |-> Missing]

\* A device-data-changed event reaches the entity's listener.
OnDataChanged ==
    \E deviceId \in Devices, attributes \in AttributeDicts :
        LET event == DataEvent(Primary, deviceId, attributes) IN
        /\ call' = [op |-> "data", event |-> event,
                    latest |-> LatestByName(call.latest, event)]
        /\ result' = DataCallback(result, event)
        /\ UNCHANGED store
        /\ UNCHANGED gatewayVars

NextEntity == OnDataChanged

SpecEntity == InitEntity /\ [][NextEntity]_vars

\* ---------------------------------------------------------------------------
\* The account step of the options flow (config_flow.py).

\* The seconds int(time.time()) may advance by during the step.
MaxClock == 2

\* get_user_info
GetUserInfo(reply) ==
    IF reply.status # "ok" THEN Raise("ClientError", <<>>)
    ELSE IF "error_description" \in DOMAIN reply.content
         THEN Raise("HaierClientException", <<reply.content.error_description>>)
    ELSE IF "userId" \notin DOMAIN reply.content THEN Raise("KeyError", <<"userId">>)
    ELSE IF "mobile" \notin DOMAIN reply.content THEN Raise("KeyError", <<"mobile">>)
    ELSE IF "username" \notin DOMAIN reply.content THEN Raise("KeyError", <<"username">>)
    ELSE Ok([userId |-> reply.content.userId, mobile |-> reply.content.mobile,
             username |-> reply.content.username])

UserInfoReplies ==
    {TransportFailure,
     HttpOk(EmptyDict),
     HttpOk([error_description |-> "invalid_token"]),
     HttpOk([userId |-> "u", mobile |-> "138", username |-> "n"])}

\* user_input of the account form.
AccountInputs == [client_id : {"c1", "c2"}, refresh_token : {"r1", "r9"}]

NoToken == [accountToken |-> "", refreshToken |-> "", expiresIn |-> 0]

\* The account section of the config entry, as AccountConfig reads it.
StoredAccount == [client_id |-> "c1", token |-> "t1", refresh_token |-> "r1", expires_at |-> 0]

\* The fields assigned to cfg before cfg.save: expires_at is
\* int(time.time()) + token_info.expires_in, read at the assignment.
SavedAccount(input, token_info, now) ==
    [client_id |-> input.client_id, token |-> token_info.accountToken,
     refresh_token |-> token_info.refreshToken,
     expires_at |-> now + token_info.expiresIn]

\* except HaierClientException: errors['base'] = 'auth_error'; any other
\* exception leaves the step.
StageAfter(exc) == IF exc.type = "HaierClientException" THEN "form" ELSE "raised"
ErrorsAfter(exc) == IF exc.type = "HaierClientException" THEN "auth_error" ELSE "none"

InitAccount ==
    /\ GatewayInit
    /\ call = [op |-> "account", input |-> [client_id |-> "c1", refresh_token |-> "r1"],
               token_info |-> NoToken, refreshedAt |-> 0, clock |-> 0]
    /\ result = [kind |-> "flow", stage |-> "form", errors |-> "none",
                 config |-> StoredAccount]
    /\ store = [d \in Devices |-> Missing]

\* The form is submitted: refresh_token is awaited.
SubmitAccount ==
    /\ call.op = "account"
    /\ result.stage = "form"
    /\ \E input \in AccountInputs :
          call' = [call EXCEPT !.input = input, !.token_info = NoToken]
    /\ result' = [result EXCEPT !.stage = "refresh", !.errors = "none"]
    /\ UNCHANGED store
    /\ UNCHANGED gatewayVars

\* A second passes while a request is awaited.
Tick ==
    /\ call.op = "account"
    /\ result.stage \in {"refresh", "userinfo"}
    /\ call.clock < MaxClock
    /\ call' = [call EXCEPT !.clock = @ + 1]
    /\ UNCHANGED <<result, store>>
    /\ UNCHANGED gatewayVars

\* refresh_token returns or raises; on return get_user_info is awaited.
RefreshDone ==
    /\ call.op = "account"
    /\ result.stage = "refresh"
    /\ \E reply \in Replies(TokenPayloads) :
          LET r == RefreshToken(reply) IN
          IF r.ok
          THEN /\ call' = [call EXCEPT !.token_info = r.val, !.refreshedAt = call.clock]
               /\ result' = [result EXCEPT !.stage = "userinfo"]
          ELSE /\ UNCHANGED call
               /\ result' = [result EXCEPT !.stage = StageAfter(r.exc),
                                           !.errors = ErrorsAfter(r.exc)]
    /\ UNCHANGED store
    /\ UNCHANGED gatewayVars

\* get_user_info returns or raises; on return the fields are assigned, saved
\* and the entry is reloaded.
UserInfoDone ==
    /\ call.op = "account"
    /\ result.stage = "userinfo"
    /\ \E reply \in UserInfoReplies :
          LET r == GetUserInfo(reply) IN
          IF r.ok
          THEN result' = [result EXCEPT
                             !.stage = "reloaded",
                             !.config = SavedAccount(call.input, call.token_info,
                                                     call.clock)]
          ELSE result' = [result EXCEPT !.stage = StageAfter(r.exc),
                                        !.errors = ErrorsAfter(r.exc)]
    /\ UNCHANGED <<call, store>>
    /\ UNCHANGED gatewayVars

NextAccount == SubmitAccount \/ Tick \/ RefreshDone \/ UserInfoDone

SpecAccount == InitAccount /\ [][NextAccount]_vars

\* ------------------------------------------------------------------ claims

IsStatus(e) == e.type = "gateway_status_changed"
IsData(e) == e.type = "device_data_changed"
Fired == {last.fired[i] : i \in DOMAIN last.fired}

\* A session has fired status True at least once: it does so in the step that
\* binds cancel_control_listen.
HasReportedUp(s) == cancelHandle[s] # 0

\* C1: once a newer session has recorded its process id, the superseded
\* session fires no gateway-status-changed event, neither True nor False: every
\* status event is fired by the session whose process id is the recorded one.
C1_SupersededSessionSilent ==
    \A e \in Fired : IsStatus(e) => e.by = current

\* C2: a session never fires gateway-status-changed(False) when another
\* session has taken over the recorded process id and has already fired
\* gateway-status-changed(True).
C2_NoDownAfterNewUp ==
    \A e \in Fired :
        (IsStatus(e) /\ ~e.status) =>
            ~\E t \in Sessions \ {e.by} : current = t /\ HasReportedUp(t)

\* The old session ran its finally clause after the new one reported up, and
\* skipped the event.
C2_Witness ==
    \E s \in Sessions :
        /\ last.fired = <<LogSkip(s)>>
        /\ current \in Sessions \ {s}
        /\ HasReportedUp(current)

\* C3: a session that has made a connection attempt ends (returns or raises)
\* only with its cancel signal set; until then a failed attempt is retried.
C3_RetriesUntilCancelled ==
    \A s \in Sessions :
        (attempts[s] >= 1 /\ pc[s] \in {"done", "crashed"}) => signal[s]

\* C4: every connection attempt after the first is entered from the 30 s
\* backoff sleep.
C4_BackoffBeforeReconnect ==
    [][\A s \in Sessions :
          (/\ attempts[s] >= 1
           /\ pc[s] \notin {"connect", "capped"}
           /\ pc'[s] \in {"connect", "capped"}) => pc[s] = "backoff"]_vars

DecodeError(msg) == msg.type = "TEXT" /\ ParseMessage(msg.data).kind = "raise"

\* C5: a text frame that fails to decode is dropped: no device-data-changed
\* event, and the session goes on reading from the same socket.
C5_DecodeErrorKeepsStreaming ==
    (last.op = "Receive" /\ DecodeError(last.rx[1]) /\ ~signal[last.by]) =>
        /\ pc[last.by] = "stream"
        /\ \A e \in Fired : ~IsData(e)

\* C6: once its cancel signal is set a session starts no connection attempt:
\* when a connection has ended or failed with the signal set, the loop is left
\* at the end of the finally clause.
C6_NoAttemptAfterCancel ==
    [][\A s \in Sessions :
          signal[s] => /\ attempts'[s] = attempts[s]
                       /\ pc'[s] = "capped" => pc[s] = "capped"
                       /\ (pc[s] \in {"close", "backoff"} /\ pc'[s] # pc[s]) =>
                              pc'[s] \in {"done", "crashed"}]_vars

\* A failure was followed by the backoff with the signal set, and the loop was
\* left.
C6_Witness ==
    /\ last.op = "BackoffOver"
    /\ signal[last.by]
    /\ pc[last.by] = "done"
    /\ attempts[last.by] < MaxAttempts

\* The attribute array a well-formed push frame carries, read off the wire.
WireAttributes(f) == f.body.content.data.body.body.args.body.body.body.attributes

\* The attribute array a well-formed digital-model reply carries for a device.
ReplyAttributes(reply, deviceId) ==
    IF deviceId \in DOMAIN reply.content.detailInfo
    THEN reply.content.detailInfo[deviceId].body.attributes
    ELSE <<>>

HasValue(a) == "value" \in DOMAIN a

SnapshotMatches(attributes, m) ==
    /\ DOMAIN m = {attributes[i].name : i \in {j \in DOMAIN attributes : HasValue(attributes[j])}}
    /\ \A n \in DOMAIN m :
          \E i \in DOMAIN attributes :
              /\ HasValue(attributes[i])
              /\ attributes[i].name = n
              /\ attributes[i].value = m[n]

\* C7: the snapshot mapping derived from an attribute array, in a push frame
\* and in a live digital-model fetch, has a key exactly for the names of the
\* objects that carry a value, mapped to such an object's value.
C7_SnapshotHasExactlyValuedEntries ==
    /\ (call.op = "parse" /\ result.kind = "event") =>
           SnapshotMatches(WireAttributes(call.msg), result.attributes)
    /\ (call.op = "snapshot" /\ result.kind = "return") =>
           SnapshotMatches(ReplyAttributes(call.reply, call.deviceId), result.val)

\* A frame with a valued and a valueless attribute was decoded.
C7_Witness ==
    /\ call.op = "parse"
    /\ result.kind = "event"
    /\ DOMAIN result.attributes # {}
    /\ \E i \in DOMAIN WireAttributes(call.msg) : ~HasValue(WireAttributes(call.msg)[i])

\* A text frame with a topic other than GenMsgDown, or GenMsgDown with a
\* businType other than DigitalModel.
OtherFrame(msg) ==
    /\ msg.type = "TEXT"
    /\ msg.data.enc = "json"
    /\ "topic" \in DOMAIN msg.data.body
    /\ \/ msg.data.body.topic # "GenMsgDown"
       \/ /\ "content" \in DOMAIN msg.data.body
          /\ "businType" \in DOMAIN msg.data.body.content
          /\ msg.data.body.content.businType # "DigitalModel"

\* C8: reading a frame of another topic or businType fires nothing and changes
\* nothing of the session; the session reads on (or, its signal set, leaves
\* the read loop).
C8_OtherFramesIgnored ==
    [][\A s \in Sessions :
          (last'.op = "Receive" /\ last'.by = s /\ OtherFrame(last'.rx[1])) =>
              /\ last'.fired = <<>>
              /\ pc'[s] = IF signal[s] THEN "close" ELSE "stream"
              /\ UNCHANGED <<signal, current, attempts, cancelHandle, listeners, hb>>]_vars

C8_Witness ==
    /\ last.op = "Receive"
    /\ OtherFrame(last.rx[1])
    /\ last.rx[1].data.body.topic = "GenMsgDown"
    /\ pc[last.by] = "stream"

RestOps == {"refreshToken", "getDevices", "getDigitalModel", "getGatewayUrl"}

PayloadKey(op) ==
    CASE op = "refreshToken" -> "data"
      [] op = "getDevices" -> "deviceinfos"
      [] op = "getDigitalModel" -> "detailInfo"
      [] op = "getGatewayUrl" -> "agAddr"

SuccessEnvelope(c) == "retCode" \notin DOMAIN c \/ c.retCode = "00000"

RemoteError == result.kind = "raise" /\ result.exc.type = "HaierClientException"

\* C9: each signed call takes a response for a success exactly when retCode is
\* absent or "00000"; for another retCode it returns nothing and raises the
\* remote error whose message ends in the response's retInfo.
C9_EnvelopeDecidesSuccess ==
    (call.op \in RestOps /\ result # Pending /\ call.reply.status = "ok") =>
        LET c == call.reply.content IN
        /\ SuccessEnvelope(c) => ~RemoteError
        /\ (SuccessEnvelope(c) /\ call.op # "getDigitalModel"
               /\ PayloadKey(call.op) \in DOMAIN c) => result.kind = "return"
        /\ ~SuccessEnvelope(c) => result.kind = "raise"
        /\ (~SuccessEnvelope(c) /\ "retInfo" \in DOMAIN c) =>
               /\ RemoteError
               /\ result.exc.msg = <<ErrorPrefix, c.retInfo>>

C9_Witness ==
    /\ call.op = "refreshToken"
    /\ call.reply.status = "ok"
    /\ "data" \in DOMAIN call.reply.content
    /\ ~SuccessEnvelope(call.reply.content)
    /\ RemoteError
    /\ result.exc.msg = <<ErrorPrefix, "boom">>

\* C10: with a bare string persisted for the device, getAttributes deletes the
\* record and fetches remotely; what the fetch returns is persisted in a fresh
\* record and returned, and nothing is raised but what the fetch raises.
C10_StringRecordRefetched ==
    (call.op = "getAttributes" /\ call.before[call.deviceId].t = "str") =>
        LET remote == GetDigitalModel(call.reply, call.deviceId) IN
        /\ result.removed
        /\ result.fetched
        /\ result.out = remote
        /\ remote.ok =>
              /\ result.saved
              /\ result.out.val = ReplyAttributes(call.reply, call.deviceId)
              /\ store[call.deviceId] =
                     DictRecord([device |-> DeviceMeta(call.deviceId),
                                 attributes |-> remote.val])
        /\ \A d \in Devices \ {call.deviceId} : store[d] = call.before[d]

C10_Witness ==
    /\ call.op = "getAttributes"
    /\ call.before[call.deviceId] = StrRecord("corrupt")
    /\ result.removed
    /\ result.out.ok
    /\ result.out.val # <<>>
    /\ store[call.deviceId].t = "dict"

\* A persisted record that is not {device, attributes}.
WrongShape(record) ==
    \/ record.t \in {"str", "list", "num"}
    \/ record.t = "dict" /\ "attributes" \notin DOMAIN record.dict

\* C11: a persisted record of any wrong shape (a string, a list, a number, a
\* record without attributes) is handled as a cache miss: getAttributes goes
\* to the remote fetch, does not keep the record, and raises nothing but what
\* the fetch raises.
C11_WrongShapeIsMiss ==
    (call.op = "getAttributes" /\ WrongShape(call.before[call.deviceId])) =>
        /\ result.fetched
        /\ result.out = GetDigitalModel(call.reply, call.deviceId)
        /\ store[call.deviceId] # call.before[call.deviceId]

\* C12: a getAttributes that follows, for the same device, one that missed the
\* cache and returned, is a hit: it returns the list the first one returned
\* and persisted, makes no remote call and leaves the store as it is; and no
\* getAttributes touches another device's record.
C12_HitAfterMiss ==
    [][/\ (/\ call.op = "getAttributes"
           /\ result.fetched
           /\ result.out.ok
           /\ call'.deviceId = call.deviceId) =>
              /\ result'.out = result.out
              /\ ~result'.fetched
              /\ ~result'.saved
              /\ store' = store
       /\ \A d \in Devices \ {call'.deviceId} : store'[d] = store[d]]_vars

\* The empty list was fetched and persisted by a first call, and a second call
\* returned it from the cache.
C12_Witness ==
    /\ call.op = "getAttributes"
    /\ call.before[call.deviceId] =
           DictRecord([device |-> DeviceMeta(call.deviceId), attributes |-> <<>>])
    /\ ~result.fetched
    /\ result.out = Ok(<<>>)
    /\ store = call.before

\* C13: on a success envelope whose detail map lacks the device id,
\* getDigitalModel returns the empty list; with that detail map it fails only
\* on a non-success envelope.
C13_MissingDeviceIsEmptyModel ==
    (/\ call.op = "getDigitalModel"
     /\ result # Pending
     /\ call.reply.status = "ok"
     /\ "detailInfo" \in DOMAIN call.reply.content
     /\ call.deviceId \notin DOMAIN call.reply.content.detailInfo) =>
        IF SuccessEnvelope(call.reply.content)
        THEN result = [kind |-> "return", val |-> <<>>]
        ELSE result.kind = "raise"

C13_Witness ==
    /\ call.op = "getDigitalModel"
    /\ call.reply.status = "ok"
    /\ "retCode" \in DOMAIN call.reply.content
    /\ "detailInfo" \in DOMAIN call.reply.content
    /\ DOMAIN call.reply.content.detailInfo # {}
    /\ call.deviceId \notin DOMAIN call.reply.content.detailInfo
    /\ result = [kind |-> "return", val |-> <<>>]

\* The body with no whitespace character left.
Stripped(body) == SelectSeq(body, LAMBDA c : c \notin Whitespace)

\* The URL up to its query.
WithoutQuery(url) ==
    IF \E i \in 1..Len(url) : url[i] = "?"
    THEN SubSeq(url, 1, (CHOOSE i \in 1..Len(url) :
                             /\ url[i] = "?"
                             /\ \A j \in 1..(i - 1) : url[j] # "?") - 1)
    ELSE url

CanonicalString(in) ==
    WithoutQuery(in.url) \o Stripped(in.body) \o in.app_id \o in.app_key \o in.timestamp

\* C14: the signature is the hash of the path without its query, the body
\* without space, tab, CR and LF, appId, appKey and timestamp, concatenated in
\* this order with no separator; it depends on nothing but these inputs.
C14_SignatureOfCanonicalString ==
    (call.op = "sign" /\ result # Pending) =>
        /\ result.a = Sha256(CanonicalString(call.a))
        /\ result.b = Sha256(CanonicalString(call.b))

\* A body with whitespace and a URL with a query have been signed.
C14_Witness ==
    /\ call.op = "sign"
    /\ result # Pending
    /\ \E i \in 1..Len(call.a.body) : call.a.body[i] \in Whitespace
    /\ \E i \in 1..Len(call.a.body) : call.a.body[i] \notin Whitespace
    /\ \E i \in 2..Len(call.a.url) : call.a.url[i] = "?"
    /\ result.a = Sha256(CanonicalString(call.a))

DiffersWhereRemoved ==
    \/ /\ call.field = "body"
       /\ call.a.body[call.pos] \in Whitespace
       /\ call.b.body[call.pos] \in Whitespace
    \/ /\ call.field = "url"
       /\ \E j \in 1..(call.pos - 1) : call.a.url[j] \in PathEnd

C16_OneBatchFramePerControlEvent ==
    (last.op = "Control" /\ Connected(last.by)) =>
        /\ Len(last.wrote) = 1
        /\ last.wrote[1].enc = "json"
        /\ LET frame == last.wrote[1].body
               event == last.rx[1]
           IN /\ frame.topic = "BatchCmdReq"
              /\ Len(frame.content.data) = 1
              /\ frame.content.data[1].index = 0
              /\ frame.content.data[1].delaySeconds = 0
              /\ frame.content.data[1].sn = frame.content.sn
              /\ frame.content.data[1].subSn = <<frame.content.sn, ":0">>
              /\ frame.content.data[1].deviceId = event.deviceId
              /\ frame.content.data[1].cmdArgs = event.attributes

\* A control event for the second device was relayed with a trace that is
\* not its serial.
C16_Witness ==
    /\ last.op = "Control"
    /\ Connected(last.by)
    /\ last.rx[1].deviceId = "D2"
    /\ Len(last.wrote) = 1
    /\ last.wrote[1].body.content.trace # last.wrote[1].body.content.sn

\* The attribute arrays _parse_message decodes: every valued object is named.
Decodable == {a \in AttributeArrays : \A i \in DOMAIN a : HasValue(a[i]) => "name" \in DOMAIN a[i]}

\* C17: on a connection, a digital-model push frame that is read is followed,
\* before the next read, by exactly one device-data-changed event, with the
\* frame's device id and snapshot; and no data event is published otherwise.
\* The events of a connection are so the push frames read, in their order.
C17_OneDataEventPerPushFrame ==
    /\ \A d \in Devices, a \in Decodable :
          (last.op = "Receive" /\ last.rx = <<[type |-> "TEXT", data |-> PushFrame(d, a)]>>) =>
              /\ Len(last.fired) = 1
              /\ IsData(last.fired[1])
              /\ last.fired[1].by = last.by
              /\ last.fired[1].deviceId = d
              /\ SnapshotMatches(a, last.fired[1].attributes)
              /\ pc[last.by] \in {"stream", "close"}
    /\ (\E i \in DOMAIN last.fired : IsData(last.fired[i])) =>
          /\ last.op = "Receive"
          /\ \E d \in Devices, a \in Decodable :
                last.rx = <<[type |-> "TEXT", data |-> PushFrame(d, a)]>>

\* A push for the second device was read and published.
C17_Witness ==
    /\ last.op = "Receive"
    /\ last.rx[1].type = "TEXT"
    /\ last.rx[1].data = PushFrame("D2", <<[name |-> "targetTemp", value |-> "40"]>>)
    /\ Len(last.fired) = 1
    /\ last.fired[1].deviceId = "D2"

\* C18: a remote error or a network failure of the gateway-URL discovery does
\* not end listen: the session goes on to retry.
C18_DiscoveryFailureRetried ==
    \A s \in Sessions :
        (last.op = "Discover" /\ last.by = s) => pc[s] # "crashed"

\* C19: while a session sleeps the backoff after a failure on a connection,
\* the control listener of that connection is not registered and its
\* heartbeat has been told to stop.
C19_CleanupBeforeBackoff ==
    \A s \in Sessions :
        (pc[s] = "backoff" /\ hb[s][attempts[s]] # "none") =>
            /\ <<s, attempts[s]>> \notin listeners
            /\ hb[s][attempts[s]] \in {"stopping", "stopped"}

\* C20: once a session has left a connection behind, by the next attempt or
\* by the end of listen, the heartbeat task of that connection has been told
\* to stop.
C20_HeartbeatStoppedWithConnection ==
    \A s \in Sessions, k \in Attempts :
        (attempts[s] > k \/ (attempts[s] = k /\ pc[s] \in {"done", "crashed", "capped"})) =>
            hb[s][k] # "alive"

\* C21: once the signal is set while a session streams, the session by itself,
\* with no further frame on the socket, eventually leaves the read loop,
\* unregisters its listener, tells its heartbeat to stop and returns.
C21_CancelEndsStreaming ==
    (signal[Primary] /\ pc[Primary] = "stream") ~>
        (/\ pc[Primary] = "done"
         /\ \A k \in Attempts : <<Primary, k>> \notin listeners /\ hb[Primary][k] # "alive")

\* C22: listen records its process id as the authoritative one when it is
\* entered, and nothing else changes the authoritative id: the session that
\* was invoked last is the authoritative one, in whatever order the discovery
\* calls complete.
C22_AuthorityTakenAtEntry ==
    [][/\ last'.op = "Listen" => current' = last'.by
       /\ last'.op # "Listen" => current' = current]_vars

\* C23: no heartbeat write and no control write is made on a socket while the
\* subscribe write on that socket is in progress.
C23_WritesSerialized ==
    \A s \in Sessions :
        (last.by = s /\ last.op \in {"Heartbeat", "Control"} /\ last.wrote # <<>>) =>
            pc[s] # "subscribe"

\* C24: on a connection the subscribe frame is sent before the heartbeat task
\* is started, BoundDevs is the first frame written, and status True is fired
\* only in the step that has sent the subscribe frame and registered the
\* control listener.
C24_SubscribeThenHeartbeatThenListener ==
    \A s \in Sessions :
        /\ pc[s] = "subscribe" => hb[s][attempts[s]] = "none"
        /\ (last.by = s /\ last.op = "Heartbeat" /\ last.wrote # <<>>) => pc[s] # "subscribe"
        /\ (\E i \in DOMAIN last.fired :
                IsStatus(last.fired[i]) /\ last.fired[i].by = s /\ last.fired[i].status) =>
               /\ last.op = "SubscribeOk"
               /\ last.wrote = <<"BoundDevs">>
               /\ <<s, attempts[s]>> \in listeners

\* C25: a session enters every connection attempt through a gateway-URL
\* discovery made for that attempt.
C25_DiscoveryBeforeEveryAttempt ==
    [][\A s \in Sessions :
          (pc'[s] = "connect" /\ attempts'[s] # attempts[s]) =>
              (last'.op = "Discover" /\ last'.by = s)]_vars

\* C28: a heartbeat write that fails leaves its task alive, to wake again
\* after its next interval, leaves the session where it is and fires no event.
C28_HeartbeatFailureSwallowed ==
    [][last'.op = "HeartbeatFail" =>
          /\ UNCHANGED <<pc, signal, current, attempts, cancelHandle, listeners, hb>>
          /\ last'.fired = <<>>
          /\ last'.wrote = <<>>
          /\ \E k \in Attempts : hb'[last'.by][k] = "alive"]_vars

\* A heartbeat write failed while its session was streaming.
C28_Witness ==
    /\ last.op = "HeartbeatFail"
    /\ pc[last.by] = "stream"
    /\ hb[last.by][attempts[last.by]] = "alive"

\* C29: a control event fired while its session has no control listener
\* registered writes nothing and leaves nothing behind in the session; and a
\* command frame is only ever written by the step that relays its event, so
\* no later step writes it.
C29_UnheardControlEventDropped ==
    [][/\ (last'.op = "Control" /\ \A k \in Attempts : <<last'.by, k>> \notin listeners) =>
              /\ last'.wrote = <<>>
              /\ UNCHANGED <<pc, signal, current, attempts, cancelHandle, listeners, hb>>
       /\ last'.op # "Control" =>
              \A i \in DOMAIN last'.wrote : last'.wrote[i] \in {"BoundDevs", "HeartBeat"}]_vars

\* A control event was fired during the backoff that follows the cleanup of a
\* connection, and nothing was written.
C29_Witness ==
    /\ last.op = "Control"
    /\ attempts[last.by] >= 1
    /\ cancelHandle[last.by] # 0
    /\ \A k \in Attempts : <<last.by, k>> \notin listeners
    /\ last.wrote = <<>>

\* C26: after any sequence of data events, the entity holds for each attribute
\* name the value of the most recent event of its device that carried the
\* name: an event that omits a name erases nothing, an event of another
\* device changes nothing.
C26_LastWriteWinsPerName ==
    result.kind = "entity" => result.data = call.latest

\* C27: the stored account configuration changes only when get_user_info
\* succeeds after a successful refresh_token, and expires_at is then the time
\* of that refresh plus its expiresIn; a remote error of refresh_token and an
\* error_description of get_user_info end in auth_error with the stored
\* configuration unchanged.
C27_ConfigurationFollowsSuccessfulRefresh ==
    [][(call.op = "account" /\ call'.op = "account") =>
          /\ result'.config # result.config =>
                 /\ result.stage = "userinfo"
                 /\ result'.stage = "reloaded"
                 /\ result'.config.token = call.token_info.accountToken
                 /\ result'.config.refresh_token = call.token_info.refreshToken
                 /\ result'.config.client_id = call.input.client_id
                 /\ result'.config.expires_at = call.refreshedAt + call.token_info.expiresIn
          /\ (result.stage \in {"refresh", "userinfo"} /\ result'.stage = "form") =>
                 /\ result'.errors = "auth_error"
                 /\ result'.config = result.config]_vars

====
